---- MODULE Spec2Model ----
(***************************************************************************)
(* Model of the recursive ray tracer in raytracer_logic.cpp:               *)
(*   FindNearestIntersection, IsInShadow, GetColor, RayCast, Render.       *)
(*                                                                         *)
(* The geometry substrate (GetIntersection, Refract, Reflect, DotProduct,  *)
(* IsInside, the camera transform) is external to this file.  Its results  *)
(* are inputs of the model: every call draws its result from a small set.  *)
(* A ray is represented by the table of what GetIntersection returns for   *)
(* each object of a collection, in collection order.  A hit position on a  *)
(* ray is identified by its distance along that ray.  Colors are single    *)
(* channel naturals (all channels are treated alike by the code).          *)
(***************************************************************************)
EXTENDS Integers, Sequences, FiniteSets, TLC

\* ------------------------------------------------------------------ bounds
MaxDepth == 2         \* largest initial render_options.depth
NegDepth == 1         \* the initial depth ranges over -NegDepth..MaxDepth
NumTriangles == 2     \* size of scene.GetObjects()
NumSpheres == 2       \* size of scene.GetSphereObjects()
MaxDist == 2          \* hit distances range over 1..MaxDist
NumLights == 1        \* size of scene.GetLights()
Width == 2            \* largest camera_options.screen_width
Height == 1           \* largest camera_options.screen_height

\* The call stack holds MaxStack RayCast frames; one more call exhausts it.
MaxStack == MaxDepth + 1

VARIABLES
    \* ---- Render / RayCast / GetColor
    render_options,   \* Render's parameter: [depth, mode]
    camera_options,   \* Render's parameter: [screen_width, screen_height]
    scene,            \* ReadScene(filename): the materials of its primitives
    i, j,             \* Render's loop counters (0-based, as in the code)
    color_map,        \* color_map[i][j]; Unset before the cell is assigned
    calls,            \* ghost: RayCast calls Render made for each pixel
    writes,           \* ghost: assignments to each color_map cell
    status,           \* "rendering", "postproc", "done"; "aborted" (stopped at line 85),
                      \* "overflow" (call stack exhausted); "off" when Render is not run
    stack,            \* the RayCast/GetColor activation records, root first
    \* ---- one two-collection search (RayCast lines 111-130)
    objects,          \* GetIntersection(ray, t) for each triangle, in order
    spheres,          \* GetIntersection(ray, s) for each sphere, in order
    fresh,            \* the default-constructed Intersection
    best_intersection,
    triangle,         \* index of the returned triangle, 0 for nullptr
    sphere,           \* index of the returned sphere, 0 for nullptr
    spc,              \* position in the search: "start","triangles","spheres","done"
    dispatch,         \* what RayCast did with the search's result
    \* ---- one IsInShadow call
    light_dist,       \* Length(pos - light.position)
    pos_default,      \* whether pos equals the default Intersection's position
    shadow            \* [done, value]: the value IsInShadow returned

renderVars == <<render_options, camera_options, scene, i, j, color_map, calls, writes, status, stack>>
searchVars == <<objects, spheres, fresh, best_intersection, triangle, sphere, spc, dispatch>>
shadowVars == <<light_dist, pos_default, shadow>>
vars == <<renderVars, searchVars, shadowVars>>

\* ------------------------------------------------------- geometry inputs
\* std::optional<Intersection> as returned by GetIntersection
NoHit == [some |-> FALSE, dist |-> 0]
HitAt(d) == [some |-> TRUE, dist |-> d]
Optionals == {NoHit} \cup {HitAt(d) : d \in 1..MaxDist}

TriTables == [1..NumTriangles -> Optionals]
SphTables == [1..NumSpheres -> Optionals]

\* Intersection best_intersection; (default constructed).  Its distance is
\* whatever the default constructor leaves; both extremes are drawn.
Intersection(d) == [fresh |-> TRUE, dist |-> d, normal |-> FALSE]
FreshIntersections == {Intersection(0), Intersection(MaxDist + 1)}

\* best_intersection = intersection.value();
Value(x) == [fresh |-> FALSE, dist |-> x.dist, normal |-> FALSE]

\* DefineNormal(*triangle, best_intersection);
DefineNormal(b) == [b EXCEPT !.normal = TRUE]

\* --------------------------------------------- FindNearestIntersection
\* Line 25-26 with the carry-over flag dropped: the first valid hit of every
\* collection is accepted whatever its distance.
AcceptsIgnoringFlag(x, best, flag, target_object) ==
    x.some /\ (target_object = 0 \/ x.dist < best.dist)

\* Line 25-26 with <= for <: a hit at the same distance replaces the best.
AcceptsOrEqual(x, best, flag, target_object) ==
    x.some /\ ((~flag /\ target_object = 0) \/ x.dist <= best.dist)

\* The loop condition of line 25-26.
Accepts(x, best, flag, target_object) ==
    x.some /\ ((~flag /\ target_object = 0) \/ x.dist < best.dist)

RECURSIVE FindLoop(_, _, _, _, _)
FindLoop(objs, k, best, flag, target_object) ==
    IF k > Len(objs)
    THEN [target |-> target_object, best |-> best]
    ELSE IF Accepts(objs[k], best, flag, target_object)
         THEN FindLoop(objs, k + 1, Value(objs[k]), flag, k)
         ELSE FindLoop(objs, k + 1, best, flag, target_object)

FindNearestIntersection(objs, best, flag) == FindLoop(objs, 1, best, flag, 0)

\* ------------------------------------------------------------ IsInShadow
\* pos lies on the light ray at distance D from the light; a hit at distance
\* d lies at Length |D - d| from pos.  The default Intersection's position is
\* the default Vector; posDefault says whether pos is that very point.
IsInShadow(tri, sph, fr, D, posDefault) ==
    LET r1 == FindNearestIntersection(tri, fr, FALSE)
        triangle_f == r1.target # 0
        r2 == FindNearestIntersection(sph, r1.best, triangle_f)
    IN  IF r2.best.fresh THEN ~posDefault ELSE r2.best.dist # D

\* -------------------------------------------- RayCast's search and dispatch
\* Lines 119-129: which branch RayCast takes on the two returned pointers.
\* result is Vector() on the background branch and left to GetColor otherwise.
NoResult == 0 - 1
Dispatch(tr, sp, best) ==
    IF sp # 0
    THEN [kind |-> "sphere", obj |-> sp, best |-> best, getColor |-> TRUE,
          result |-> NoResult]
    ELSE IF tr # 0
         THEN [kind |-> "triangle", obj |-> tr, best |-> DefineNormal(best),
               getColor |-> TRUE, result |-> NoResult]
         ELSE [kind |-> "background", obj |-> 0, best |-> best, getColor |-> FALSE,
               result |-> 0]

\* Lines 111-129 as one function of the ray's hit tables.
RayCastSearch(tri, sph, fr) ==
    LET r1 == FindNearestIntersection(tri, fr, FALSE)
        triangle_f == r1.target # 0
        r2 == FindNearestIntersection(sph, r1.best, triangle_f)
    IN  Dispatch(r1.target, r2.target, r2.best)

\* Every outcome the search can have, over all rays (hit tables).
SearchOutcomes ==
    {RayCastSearch(t, s, f) : t \in TriTables, s \in SphTables, f \in FreshIntersections}

\* What RayCast and GetColor go on to read of an outcome: whether GetColor is
\* called and, in depth mode, the distance of the hit.
CastOutcomes ==
    {[getColor |-> c.getColor, dist |-> IF c.getColor THEN c.best.dist ELSE 0,
      result |-> c.result] : c \in SearchOutcomes}
NoCast == [getColor |-> FALSE, dist |-> 0, result |-> 0]

\* Every value IsInShadow can return, over all light rays and points.
ShadowOutcomes ==
    UNION {{IsInShadow(t, s, f, D, p) : t \in TriTables, s \in SphTables} :
           f \in FreshIntersections, D \in 1..MaxDist, p \in BOOLEAN}

\* ReadScene(filename), as far as GetColor reads it: the materials of the
\* primitives and the number of lights.
Scene(ms, n) == [materials |-> ms, lights |-> n]

\* ----------------------------------------------------- idle sub-states
NoDispatch ==
    [kind |-> "pending", obj |-> 0, best |-> Intersection(0), getColor |-> FALSE,
     result |-> NoResult]

RenderIdle ==
    /\ render_options = [depth |-> 0, mode |-> "kFull"]
    /\ camera_options = [screen_width |-> 0, screen_height |-> 0]
    /\ scene = Scene({}, 0)
    /\ i = 0 /\ j = 0
    /\ color_map = <<>> /\ calls = <<>> /\ writes = <<>>
    /\ status = "off"
    /\ stack = <<>>

SearchIdle ==
    /\ objects = [k \in 1..NumTriangles |-> NoHit]
    /\ spheres = [k \in 1..NumSpheres |-> NoHit]
    /\ fresh = Intersection(0)
    /\ best_intersection = Intersection(0)
    /\ triangle = 0 /\ sphere = 0
    /\ spc = "off"
    /\ dispatch = NoDispatch

ShadowIdle ==
    /\ light_dist = 1 /\ pos_default = FALSE
    /\ shadow = [done |-> FALSE, value |-> FALSE]

\* =================================================== specification SpecSearch
\* One RayCast with depth # 0, from the construction of best_intersection
\* (line 111) to the branch taken (lines 119-129), for every ray.
InitSearch ==
    /\ RenderIdle /\ ShadowIdle
    /\ objects \in TriTables
    /\ spheres \in SphTables
    /\ fresh \in FreshIntersections
    /\ best_intersection = fresh
    /\ triangle = 0 /\ sphere = 0
    /\ spc = "start"
    /\ dispatch = NoDispatch

\* Lines 113-116.
SearchTriangles ==
    /\ spc = "start"
    /\ LET r == FindNearestIntersection(objects, best_intersection, FALSE)
       IN  /\ best_intersection' = r.best
           /\ triangle' = r.target
    /\ spc' = "triangles"
    /\ UNCHANGED <<objects, spheres, fresh, sphere, dispatch, renderVars, shadowVars>>

\* Lines 116-118.
SearchSpheres ==
    /\ spc = "triangles"
    /\ LET triangle_f == triangle # 0
           r == FindNearestIntersection(spheres, best_intersection, triangle_f)
       IN  /\ best_intersection' = r.best
           /\ sphere' = r.target
    /\ spc' = "spheres"
    /\ UNCHANGED <<objects, spheres, fresh, triangle, dispatch, renderVars, shadowVars>>

\* Lines 119-129.
DispatchStep ==
    /\ spc = "spheres"
    /\ dispatch' = Dispatch(triangle, sphere, best_intersection)
    /\ best_intersection' = dispatch'.best
    /\ spc' = "done"
    /\ UNCHANGED <<objects, spheres, fresh, triangle, sphere, renderVars, shadowVars>>

NextSearch == SearchTriangles \/ SearchSpheres \/ DispatchStep

SpecSearch == InitSearch /\ [][NextSearch]_vars

\* =================================================== specification SpecShadow
\* One IsInShadow call, for every light ray, point and scene.
InitShadow ==
    /\ RenderIdle
    /\ objects \in TriTables
    /\ spheres \in SphTables
    /\ fresh \in FreshIntersections
    /\ best_intersection = fresh
    /\ triangle = 0 /\ sphere = 0
    /\ spc = "off"
    /\ dispatch = NoDispatch
    /\ light_dist \in 1..MaxDist
    /\ pos_default \in BOOLEAN
    /\ shadow = [done |-> FALSE, value |-> FALSE]

\* Lines 34-46.
ShadowTest ==
    /\ ~shadow.done
    /\ shadow' = [done |-> TRUE,
                  value |-> IsInShadow(objects, spheres, fresh, light_dist, pos_default)]
    /\ UNCHANGED <<light_dist, pos_default, renderVars, searchVars>>

NextShadow == ShadowTest

SpecShadow == InitShadow /\ [][NextShadow]_vars

\* ========================================================= specification Spec
\* Render over a raster, with the recursion of RayCast and GetColor unfolded
\* on an explicit call stack.
Modes == {"kDepth", "kNormal", "kFull"}
Depths == (0 - NegDepth)..MaxDepth
Cameras == [screen_width : 1..Width, screen_height : 1..Height]
Pixels(cam) == (0..cam.screen_height - 1) \X (0..cam.screen_width - 1)
Unset == 0 - 1

\* vis_obj.material: albedo[0..2] is albedo[1..3] here; general is
\* intensity + ambient_color (line 59).
Material(a, g) ==
    [albedo |-> a, general |-> g, diffuse_color |-> 1, specular_color |-> 2]
NoMaterial == Material(<<0, 0, 0>>, 0)
Diffuse == Material(<<1, 0, 0>>, 1)
Mirror == Material(<<0, 1, 0>>, 1)
Glass == Material(<<0, 0, 1>>, 0)
Mixed == Material(<<1, 1, 1>>, 1)
Materials == {Diffuse, Mirror, Glass, Mixed}
\* light.intensity, the same for every light of a scene
LightIntensity(l) == 1

\* The renders that are explored, each under every render_options: on a one
\* pixel raster, the lit scene of diffuse, mirror and glass primitives and
\* the unlit scene of primitives that both reflect and refract; on every
\* raster, the unlit scene of mirrors.
OnePixel == [screen_width |-> 1, screen_height |-> 1]
Inputs ==
    {[camera |-> OnePixel, scene |-> Scene({Diffuse, Mirror, Glass}, NumLights)],
     [camera |-> OnePixel, scene |-> Scene({Mixed}, 0)]}
    \cup {[camera |-> c, scene |-> Scene({Mirror}, 0)] : c \in Cameras}

\* Value of the dot-product factors l_d and l_s (lines 69-74) of a light that
\* is not skipped.
Coefs == {1}
\* Values of a component of the hit's normal (line 56).
NormalVals == {0, 1}
\* What Refract can return for a material: it is called only under line 81.
RefractResults(m) == IF m.albedo[3] > 0 THEN BOOLEAN ELSE {FALSE}
\* What dereferencing the empty optional at line 85 leads to: the program
\* goes on and line 86 sees the empty optional ("skip"), or a checked
\* operator-> stops the program ("abort").
UBOutcomes(m, rf) == IF m.albedo[3] > 0 /\ ~rf THEN {"skip", "abort"} ELSE {"skip"}

\* The activation record of one RayCast call and the GetColor call it makes.
NewFrame(opt, role) ==
    [opt |-> opt, role |-> role, pc |-> "entry",
     mat |-> NoMaterial, inside |-> FALSE,
     diffusion |-> 0, specular |-> 0, reflected |-> 0, refracted |-> 0,
     result |-> 0,
     \* ghost fields: what the call has done so far
     searches |-> 0, shadowTests |-> 0, getColor |-> "none",
     refract |-> "notcalled", derefAbsent |-> FALSE, nested |-> <<>>]

Top == stack[Len(stack)]
Below == SubSeq(stack, 1, Len(stack) - 1)

\* Lines 61-77: the sum over the lights that are not shadowed.
RECURSIVE SumLights(_, _, _, _)
SumLights(l, sh, coef, color) ==
    IF l = 0 THEN 0
    ELSE SumLights(l - 1, sh, coef, color)
         + (IF sh[l] THEN 0 ELSE coef[l] * LightIntensity(l) * color)

\* Lines 58-77 and 80.
Shade(f, m, sh, ld, ls, inside) ==
    [f EXCEPT !.mat = m,
              !.diffusion = SumLights(Len(sh), sh, ld, m.diffuse_color),
              !.specular = SumLights(Len(sh), sh, ls, m.specular_color),
              !.shadowTests = Len(sh),
              !.inside = inside]

\* Line 79, then the options handed to the call of line 88 / of line 99.
RefractionOptions(f) == [f.opt EXCEPT !.depth = f.opt.depth - 1]

\* Line 99 with a budget the two branches share: what the refraction call
\* took is gone for the reflection call.
ReflectionOptionsShared(f) ==
    [f.opt EXCEPT !.depth = f.opt.depth - 1 - Len(f.nested)]

ReflectionOptions(f) == [f.opt EXCEPT !.depth = f.opt.depth - 1]

\* Lines 101-102 without the reflected term.
FinishNoReflected(f) ==
    [f EXCEPT !.pc = "ret",
              !.result = f.mat.general
                         + f.mat.albedo[1] * (f.diffusion + f.specular)
                         + f.refracted]

\* Lines 101-102.
Finish(f) ==
    [f EXCEPT !.pc = "ret",
              !.result = f.mat.general
                         + f.mat.albedo[1] * (f.diffusion + f.specular)
                         + f.mat.albedo[2] * f.reflected
                         + f.refracted]

\* A nested RayCast call from frame f: a new frame, unless the stack is full.
Call(st, f, opt, role) ==
    LET g == [f EXCEPT !.pc = role, !.nested = Append(@, role)]
    IN  IF Len(st) + 1 >= MaxStack
        THEN [stack |-> Append(st, g), status |-> "overflow"]
        ELSE [stack |-> Append(Append(st, g), NewFrame(opt, role)),
              status |-> "rendering"]

\* Lines 94-102 without the albedo test of line 95.
ReflectionNoAlbedoTest(st, f) ==
    IF ~f.inside
    THEN Call(st, f, ReflectionOptions(f), "reflection")
    ELSE [stack |-> Append(st, Finish(f)), status |-> "rendering"]

\* Lines 94-102.
Reflection(st, f) ==
    IF f.mat.albedo[2] > 0 /\ ~f.inside
    THEN Call(st, f, ReflectionOptions(f), "reflection")
    ELSE [stack |-> Append(st, Finish(f)), status |-> "rendering"]

\* Lines 81-88, then on to the reflection when no call is made.
\* rf: whether Refract returned a direction; ub: see UBOutcomes.
Refraction(st, f, rf, ub) ==
    IF f.mat.albedo[3] > 0
    THEN IF rf
         THEN Call(st, [f EXCEPT !.refract = "some"], RefractionOptions(f), "refraction")
         ELSE LET g == [f EXCEPT !.refract = "none", !.derefAbsent = TRUE]
              IN  IF ub = "abort"
                  THEN [stack |-> Append(st, g), status |-> "aborted"]
                  ELSE Reflection(st, g)
    ELSE Reflection(st, f)

\* Lines 89-91: the refracted color once the call of line 88 has returned.
Refracted(f, color) ==
    IF ~f.inside THEN color * f.mat.albedo[3] ELSE color

\* Lines 51-57, and 58-100 up to the first nested call, of the GetColor call
\* made for the hit c.  n, m, sh, ld, ls, inside, rf, ub are what the
\* geometry substrate and the scene answer.
GetColor(st, f, c, n, m, sh, ld, ls, inside, rf, ub) ==
    IF f.opt.mode = "kDepth"
    THEN [stack |-> Append(st, [f EXCEPT !.pc = "ret", !.getColor = "kDepth",
                                         !.result = c.dist]),
          status |-> "rendering"]
    ELSE IF f.opt.mode = "kNormal"
    THEN [stack |-> Append(st, [f EXCEPT !.pc = "ret", !.getColor = "kNormal",
                                         !.result = n]),
          status |-> "rendering"]
    ELSE Refraction(st, Shade([f EXCEPT !.getColor = "kFull"], m, sh, ld, ls, inside),
                    rf, ub)

\* Lines 110-130 without the budget test of line 107.
RayCastNoBudgetTest(st, f, c, n, m, sh, ld, ls, inside, rf, ub) ==
    LET g == [f EXCEPT !.searches = 2]
    IN  IF c.getColor
        THEN GetColor(st, g, c, n, m, sh, ld, ls, inside, rf, ub)
        ELSE [stack |-> Append(st, [g EXCEPT !.pc = "ret", !.result = c.result]),
              status |-> "rendering"]

\* Lines 106-130 up to the first nested call made by GetColor.
RayCast(st, f, c, n, m, sh, ld, ls, inside, rf, ub) ==
    IF f.opt.depth = 0
    THEN [stack |-> Append(st, [f EXCEPT !.pc = "ret", !.result = 0]),
          status |-> "rendering"]
    ELSE LET g == [f EXCEPT !.searches = 2]
         IN  IF c.getColor
             THEN GetColor(st, g, c, n, m, sh, ld, ls, inside, rf, ub)
             ELSE [stack |-> Append(st, [g EXCEPT !.pc = "ret", !.result = c.result]),
                   status |-> "rendering"]

Init ==
    /\ SearchIdle /\ ShadowIdle
    /\ render_options \in [depth : Depths, mode : Modes]
    /\ \E inp \in Inputs : camera_options = inp.camera /\ scene = inp.scene
    /\ i = 0 /\ j = 0
    /\ color_map = [p \in Pixels(camera_options) |-> Unset]
    /\ calls = [p \in Pixels(camera_options) |-> 0]
    /\ writes = [p \in Pixels(camera_options) |-> 0]
    /\ status = "rendering"
    /\ stack = <<>>

\* Lines 140-143: the loop body up to the call of RayCast.
RenderCall ==
    /\ status = "rendering" /\ stack = <<>>
    /\ i < camera_options.screen_height /\ j < camera_options.screen_width
    /\ stack' = <<NewFrame(render_options, "pixel")>>
    /\ calls' = [calls EXCEPT ![<<i, j>>] = @ + 1]
    /\ UNCHANGED <<render_options, camera_options, scene, i, j, color_map, writes,
                   status, searchVars, shadowVars>>

\* The inputs a RayCast call reads on its path: nothing at depth 0, the
\* normal only in normal mode, the material, lights and Refract only in
\* shaded mode.  An input that is not read is fixed, not drawn.
HitsRead(f) == IF f.opt.depth = 0 THEN {NoCast} ELSE CastOutcomes
Shaded(f, c) == f.opt.depth # 0 /\ c.getColor /\ f.opt.mode \notin {"kDepth", "kNormal"}
NormalsRead(f, c) ==
    IF f.opt.depth # 0 /\ c.getColor /\ f.opt.mode = "kNormal" THEN NormalVals ELSE {0}
MaterialsRead(f, c) == IF Shaded(f, c) THEN scene.materials ELSE {NoMaterial}
ShadowsRead(f, c) ==
    IF Shaded(f, c) THEN [1..scene.lights -> ShadowOutcomes]
    ELSE {[l \in 1..scene.lights |-> TRUE]}
InsideRead(f, c) == IF Shaded(f, c) THEN BOOLEAN ELSE {FALSE}

\* One RayCast call, from its entry to its return or to the first nested
\* call of the GetColor it dispatches to.
RayCastEnter ==
    /\ status = "rendering" /\ stack # <<>> /\ Top.pc = "entry"
    /\ \E c \in HitsRead(Top) :
       \E n \in NormalsRead(Top, c), m \in MaterialsRead(Top, c),
          sh \in ShadowsRead(Top, c),
          ld \in [1..scene.lights -> Coefs], ls \in [1..scene.lights -> Coefs],
          inside \in InsideRead(Top, c) :
          \E rf \in RefractResults(m) : \E ub \in UBOutcomes(m, rf) :
             LET r == RayCast(Below, Top, c, n, m, sh, ld, ls, inside, rf, ub)
             IN  /\ stack' = r.stack
                 /\ status' = r.status
    /\ UNCHANGED <<render_options, camera_options, scene, i, j, color_map, calls,
                   writes, searchVars, shadowVars>>

\* Return of the call of line 88 into GetColor, lines 89-102.
ReturnRefraction ==
    /\ status = "rendering" /\ Len(stack) >= 2 /\ Top.pc = "ret"
    /\ stack[Len(stack) - 1].pc = "refraction"
    /\ LET caller == stack[Len(stack) - 1]
           st == SubSeq(stack, 1, Len(stack) - 2)
           r == Reflection(st, [caller EXCEPT !.refracted = Refracted(caller, Top.result)])
       IN  /\ stack' = r.stack
           /\ status' = r.status
    /\ UNCHANGED <<render_options, camera_options, scene, i, j, color_map, calls,
                   writes, searchVars, shadowVars>>

\* Return of the call of line 99 into GetColor, lines 100-102.
ReturnReflection ==
    /\ status = "rendering" /\ Len(stack) >= 2 /\ Top.pc = "ret"
    /\ stack[Len(stack) - 1].pc = "reflection"
    /\ LET caller == stack[Len(stack) - 1]
           st == SubSeq(stack, 1, Len(stack) - 2)
       IN  stack' = Append(st, Finish([caller EXCEPT !.reflected = Top.result]))
    /\ UNCHANGED <<render_options, camera_options, scene, i, j, color_map, calls,
                   writes, status, searchVars, shadowVars>>

\* Lines 140-145 with an inner loop that stops one column early.
ReturnToRenderShortRow ==
    /\ status = "rendering" /\ Len(stack) = 1 /\ Top.pc = "ret"
    /\ color_map' = [color_map EXCEPT ![<<i, j>>] = Top.result]
    /\ writes' = [writes EXCEPT ![<<i, j>>] = @ + 1]
    /\ stack' = <<>>
    /\ IF j + 2 < camera_options.screen_width
       THEN i' = i /\ j' = j + 1
       ELSE i' = i + 1 /\ j' = 0
    /\ status' = IF i' < camera_options.screen_height THEN "rendering" ELSE "postproc"
    /\ UNCHANGED <<render_options, camera_options, scene, calls, searchVars, shadowVars>>

\* Return of the call of line 143 into Render: the cell is assigned and the
\* loops advance (lines 140-145).
ReturnToRender ==
    /\ status = "rendering" /\ Len(stack) = 1 /\ Top.pc = "ret"
    /\ color_map' = [color_map EXCEPT ![<<i, j>>] = Top.result]
    /\ writes' = [writes EXCEPT ![<<i, j>>] = @ + 1]
    /\ stack' = <<>>
    /\ IF j + 1 < camera_options.screen_width
       THEN i' = i /\ j' = j + 1
       ELSE i' = i + 1 /\ j' = 0
    /\ status' = IF i' < camera_options.screen_height THEN "rendering" ELSE "postproc"
    /\ UNCHANGED <<render_options, camera_options, scene, calls, searchVars, shadowVars>>

\* Line 147.
PostProc ==
    /\ status = "postproc"
    /\ status' = "done"
    /\ UNCHANGED <<render_options, camera_options, scene, i, j, color_map, calls,
                   writes, stack, searchVars, shadowVars>>

Next ==
    \/ RenderCall
    \/ RayCastEnter
    \/ ReturnRefraction
    \/ ReturnReflection
    \/ ReturnToRender
    \/ PostProc

Spec == Init /\ [][Next]_vars

\* ====================================================================== claims
Frames == 1..Len(stack)
TriHits == {k \in 1..NumTriangles : objects[k].some}
SphHits == {k \in 1..NumSpheres : spheres[k].some}
\* The distance of the nearest triangle hit (when there is one).
NearestTriangle == CHOOSE d \in {objects[k].dist : k \in TriHits} :
                       \A k \in TriHits : d <= objects[k].dist

\* C1: for every initial depth the recursion terminates: every nested RayCast
\* receives the depth of its caller minus one, a call at depth zero returns
\* the zero color without going deeper, and so the recursion never runs on
\* until the call stack is exhausted.
C1_RecursionTerminates ==
    /\ \A k \in Frames : k > 1 => stack[k].opt.depth = stack[k - 1].opt.depth - 1
    /\ \A k \in Frames : stack[k].opt.depth = 0 /\ stack[k].pc # "entry"
                         => stack[k].pc = "ret" /\ stack[k].result = 0
    /\ status # "overflow"

\* C2: a RayCast call with depth 0 returns the zero color in every mode and
\* makes no nearest-intersection search, no shadow test, no GetColor call and
\* no nested RayCast call.
C2_DepthZeroIsBackground ==
    \A k \in Frames :
        stack[k].opt.depth = 0 /\ stack[k].pc # "entry"
        => /\ stack[k].pc = "ret"
           /\ stack[k].result = 0
           /\ stack[k].searches = 0
           /\ stack[k].shadowTests = 0
           /\ stack[k].getColor = "none"
           /\ stack[k].nested = <<>>
           /\ k = Len(stack)

\* C2's case: a nested call that ran out of budget has returned, in shaded mode.
C2_Witness ==
    /\ Len(stack) >= 2
    /\ Top.opt.depth = 0 /\ Top.pc = "ret" /\ Top.opt.mode = "kFull"

\* C3: after the triangle search (flag false, fresh Intersection) and the
\* sphere search (same Intersection, flag = a triangle was returned), the best
\* Intersection is no farther than any valid hit of either collection, and a
\* sphere is returned after a triangle only if it is strictly nearer.
C3_GlobalMinimum ==
    spc \in {"spheres", "done"}
    => /\ \A k \in TriHits : best_intersection.dist <= objects[k].dist
       /\ \A k \in SphHits : best_intersection.dist <= spheres[k].dist
       /\ TriHits \cup SphHits # {} => ~best_intersection.fresh
       /\ triangle # 0 /\ sphere # 0 => spheres[sphere].dist < objects[triangle].dist

\* C3's case: both collections are hit and a sphere at the triangle's distance
\* did not replace the triangle.
C3_Witness ==
    /\ spc = "spheres"
    /\ triangle # 0 /\ sphere = 0
    /\ \E k \in SphHits : spheres[k].dist = objects[triangle].dist

\* C5: IsInShadow returns false whenever no primitive of either collection is
\* hit by the light ray nearer than pos.
C5_NoFalseShadow ==
    (/\ shadow.done
     /\ \A k \in TriHits : ~(objects[k].dist < light_dist)
     /\ \A k \in SphHits : ~(spheres[k].dist < light_dist))
    => ~shadow.value

\* C4: in shaded mode with albedo[2] > 0, when Refract returns no value,
\* GetColor does not touch the absent direction, makes no refraction call and
\* adds no refraction term.
C4_AbsentRefractionUntouched ==
    \A k \in Frames :
        stack[k].getColor = "kFull" /\ stack[k].mat.albedo[3] > 0
        /\ stack[k].refract = "none"
        => /\ ~stack[k].derefAbsent
           /\ stack[k].nested \in {<<>>, <<"reflection">>}
           /\ stack[k].refracted = 0

\* C6: in shaded mode with albedo (1,0,0) GetColor makes no nested RayCast
\* call and returns base + diffuse + specular, whatever the inside-test says.
C6_DiffuseOnly ==
    \A k \in Frames :
        stack[k].getColor = "kFull" /\ stack[k].mat.albedo = <<1, 0, 0>>
        => /\ stack[k].nested = <<>>
           /\ stack[k].pc = "ret"
           /\ stack[k].result
                = stack[k].mat.general + stack[k].diffusion + stack[k].specular

\* C6's case: a lit diffuse surface seen from inside has been shaded.
C6_Witness ==
    \E k \in Frames :
        /\ stack[k].getColor = "kFull" /\ stack[k].mat.albedo = <<1, 0, 0>>
        /\ stack[k].inside /\ stack[k].diffusion > 0 /\ stack[k].specular > 0
        /\ stack[k].pc = "ret"

\* C7 as stated: with albedo (0,1,0), hit from outside, at depth 2, the color
\* returned equals the color of the nested RayCast of the mirrored ray.
C7_EqualsMirroredColor ==
    \A k \in Frames :
        /\ stack[k].getColor = "kFull" /\ stack[k].mat.albedo = <<0, 1, 0>>
        /\ ~stack[k].inside /\ stack[k].opt.depth = 2 /\ stack[k].pc = "ret"
        => stack[k].result = stack[k].reflected

\* C7 as amended: with albedo (0,1,0), hit from outside, at depth 2, the color
\* returned is the material's base term (intensity + ambient color) plus the
\* color of the one nested RayCast, that of the mirrored ray; no diffuse,
\* specular or refraction term is added.
C7_BasePlusMirroredColor ==
    \A k \in Frames :
        /\ stack[k].getColor = "kFull" /\ stack[k].mat.albedo = <<0, 1, 0>>
        /\ ~stack[k].inside /\ stack[k].opt.depth = 2 /\ stack[k].pc = "ret"
        => /\ stack[k].result = stack[k].mat.general + stack[k].reflected
           /\ stack[k].nested = <<"reflection">>

\* C7's case: a lit mirror at depth 2 whose mirrored ray brought back a color.
C7_Witness ==
    \E k \in Frames :
        /\ stack[k].getColor = "kFull" /\ stack[k].mat.albedo = <<0, 1, 0>>
        /\ ~stack[k].inside /\ stack[k].opt.depth = 2 /\ stack[k].pc = "ret"
        /\ stack[k].reflected > 0 /\ stack[k].diffusion > 0

\* C8: Render calls RayCast once per pixel, in row-major order, each time with
\* the render options it was given, assigns each cell once, and calls
\* PostProc only when every pixel's call has returned and been stored.
C8_OncePerPixel ==
    LET P == Pixels(camera_options)
        Before(p, q) == p[1] < q[1] \/ (p[1] = q[1] /\ p[2] < q[2])
    IN  /\ \A p \in P : calls[p] <= 1 /\ writes[p] <= calls[p]
        /\ \A p \in P : (color_map[p] # Unset) <=> (writes[p] = 1)
        /\ \A p, q \in P : Before(p, q) /\ calls[q] = 1 => writes[p] = 1
        /\ stack # <<>> => /\ stack[1].opt = render_options
                           /\ calls[<<i, j>>] = 1 /\ writes[<<i, j>>] = 0
        /\ status \in {"postproc", "done"}
           => stack = <<>> /\ \A p \in P : calls[p] = 1 /\ writes[p] = 1

\* C8's case: a raster of several pixels, shaded with nested calls, is done.
C8_Witness ==
    /\ status = "done"
    /\ Cardinality(Pixels(camera_options)) > 1
    /\ \A p \in Pixels(camera_options) : color_map[p] > 1

\* C9: with depth # 0, GetColor is dispatched on a sphere exactly when a
\* sphere is hit and either no triangle is hit or that sphere is strictly
\* nearer than the nearest triangle; otherwise, if a triangle is hit,
\* DefineNormal is applied and GetColor is dispatched on the nearest triangle;
\* if nothing is hit the result is the zero color and GetColor is not called.
C9_DispatchOnNearest ==
    spc = "done"
    => LET sphereCase == \E k \in SphHits :
                             TriHits = {} \/ spheres[k].dist < NearestTriangle
       IN  /\ (dispatch.kind = "sphere") <=> sphereCase
           /\ sphereCase => dispatch.getColor /\ dispatch.obj \in SphHits
           /\ ~sphereCase /\ TriHits # {}
              => /\ dispatch.kind = "triangle" /\ dispatch.getColor
                 /\ dispatch.best.normal
                 /\ dispatch.obj \in TriHits
                 /\ objects[dispatch.obj].dist = NearestTriangle
           /\ TriHits = {} /\ SphHits = {}
              => /\ dispatch.kind = "background" /\ ~dispatch.getColor
                 /\ dispatch.result = 0

\* C9's case: the nearest triangle and a sphere are at the same distance and
\* the triangle was dispatched.
C9_Witness ==
    /\ spc = "done" /\ dispatch.kind = "triangle"
    /\ \E k \in SphHits : spheres[k].dist = NearestTriangle

\* C10: a shaded GetColor makes at most two nested calls, the refraction call
\* exactly when albedo[2] > 0 and Refract gave a direction, the reflection
\* call exactly when albedo[1] > 0 and the inside-test is false; both get the
\* caller's depth minus one; depth and normal mode make no nested call.
C10_NestedCalls ==
    /\ \A k \in Frames :
        LET f == stack[k] IN
        /\ f.getColor \in {"none", "kDepth", "kNormal"} => f.nested = <<>>
        /\ f.getColor = "kFull"
           => /\ f.nested \in {<<>>, <<"refraction">>, <<"reflection">>,
                               <<"refraction", "reflection">>}
              /\ (\E n \in 1..Len(f.nested) : f.nested[n] = "refraction")
                 <=> (f.mat.albedo[3] > 0 /\ f.refract = "some")
              /\ f.pc \in {"reflection", "ret"}
                 => ((\E n \in 1..Len(f.nested) : f.nested[n] = "reflection")
                     <=> (f.mat.albedo[2] > 0 /\ ~f.inside))
    /\ \A k \in Frames : k > 1 => stack[k].opt.depth = stack[k - 1].opt.depth - 1

\* C10's case: the reflection call is running after the refraction call of the
\* same GetColor has returned.
C10_Witness ==
    \E k \in Frames :
        /\ k > 1 /\ stack[k].role = "reflection"
        /\ stack[k - 1].nested = <<"refraction", "reflection">>
        /\ stack[k - 1].opt.depth > 1
====
